---- MODULE Spec2Model ----
(***************************************************************************)
(* The offline-first submission pipeline of the Compliance Hub client:     *)
(* the IndexedDB pending-write queue (lib/offlineDb.ts), the               *)
(* useOfflineSync hook (hooks/useOfflineSync.ts) as mounted by the Layout  *)
(* header and by a form module, the connectivity monitor and the remote    *)
(* store.  Every await of the source is a suspension point: an action is   *)
(* the code that runs from one await to the next.                          *)
(***************************************************************************)
EXTENDS Integers, Sequences, FiniteSets, Bags, TLC

\* ------------------------------------------------------------------ bounds
MaxInitQueue == 1
MaxSubmits == 1
MaxStorageFaults == 1

\* --------------------------------------------------------------- constants
\* The callers of useOfflineSync(): in the application the Layout header and,
\* inside it, a form module; in the hook's own tests a single instance that
\* renderHook mounts alone ("Hook").
AppInstances == {"Layout", "Form"}
Instances == AppInstances \cup {"Hook"}
\* The collection the mounted form submits to, and the collection of the
\* items an earlier session (of another form) left in the queue.
FormTable == "cash_actions"
PersistedTable == "store_actions"
\* A remote insert resolves without error, resolves with an error, or throws.
Outcomes == {"ok", "error", "throw"}

\* The submission surfaces and the collection each submits to.
Surfaces ==
    {[form |-> "CashActionModule", table |-> "cash_actions"],
     [form |-> "InventoryActionModule", table |-> "inventory_actions"],
     [form |-> "StoreActionModule", table |-> "store_actions"],
     [form |-> "EmployeeActionModule", table |-> "employee_actions"],
     [form |-> "ReportCreationForm", table |-> "employee_reports"]}

\* What decides a notification besides the submit's result: for the report
\* form the status asked for and whether an employee e-mail was entered;
\* for the other forms nothing.
ReportInputs ==
    [status : {"draft", "pending_acknowledgment"}, employeeEmail : BOOLEAN]

NoInput == [status |-> "none", employeeEmail |-> FALSE]

Inputs(f) == IF f.form = "ReportCreationForm" THEN ReportInputs ELSE {NoInput}

\* supabase.auth.getSession(), fetch() and response.text() as awaited by
\* sendNotification.
SessionOutcomes == {"token", "none", "throw"}
FetchOutcomes == {"ok", "notok", "throw"}
TextOutcomes == {"ok", "throw"}

\* The values direct callers hand to the queue interface.
Tables == {f.table : f \in Surfaces}
Payloads == {<<"payload", 1>>, <<"payload", 2>>}

NoPass == [owner |-> "none"]

NoCall == [op |-> "none"]

\* The keys and the values the cache is called with: the falsy values 0,
\* false and '' and an object, each written as <<typeof, text>>.
CacheKeys == {"k1", "k2"}

FalsyValues == {<<"number", "0">>, <<"boolean", "false">>, <<"string", "">>}

CacheValues == FalsyValues \cup {<<"object", "{data:123}">>}

\* null
Null == <<"object", "null">>

\* What Date.now() reads when cacheData runs.
Times == {1, 2}

CacheTable == "test_table"

\* The cash form before the user has typed an amount (useState('') of
\* CashActionModule.tsx lines 37-38).
BlankCash == [pc |-> "blank"]

\* No window event has been dispatched since the page loaded.
NoEvent == [event |-> "none", tick |-> 0]

VARIABLES
    isOnline,       \* useOnlineStatus(): the connectivity monitor's value
    queue,          \* the offlineQueue object store: a set of items
    nextId,         \* the next fresh id crypto.randomUUID() hands out
    remote,         \* the remote store: a bag of inserted rows
    mounted,        \* the hook instances that are mounted
    pendingCount,   \* useState(0), per instance
    isSyncing,      \* useState(false), per instance
    isSyncingRef,   \* useRef(false), per instance
    loading,        \* instances whose loadPendingCount awaits getOfflineQueue
    passes,         \* the syncQueue activations in flight
    submits,        \* the submitWithOfflineSupport activations in flight
    returned,       \* history: the submit calls that have settled
    dequeued,       \* history: ids a drain pass has deleted from the queue
    faults,         \* history: local-store requests that were rejected
    last,           \* observation of the step just taken
    handlers,       \* the forms' handleSubmit activations in flight
    handled,        \* history: the handleSubmit activations that have ended
    notes,          \* the sendNotification calls, in flight and settled
    dbCall,         \* the last direct call of the offlineDb queue interface
    cache,          \* the cachedData object store: a set of entries
    written,        \* history: per key, the value last handed to cacheData
    cacheCall,      \* the last direct call of the offlineDb cache interface
    inflight,       \* items added by a transaction that has not completed
    cash,           \* the cash form's amounts and what it computes from them
    heard,          \* the last window event dispatched to the monitor
    during          \* history: the submit calls made while a pass was running

\* What the surfaces, the notifications and the queue interface never touch.
areaVars == <<cache, written, cacheCall, inflight, cash, heard, during>>

\* What the hook and the queue never touch.
sideVars == <<handlers, handled, notes, dbCall, areaVars>>

vars == <<isOnline, queue, nextId, remote, mounted, pendingCount, isSyncing,
          isSyncingRef, loading, passes, submits, returned, dequeued, faults,
          last, handlers, handled, notes, dbCall, cache, written, cacheCall,
          inflight, cash, heard, during>>

\* ------------------------------------------------------------ pure helpers
Max(a, b) == IF a >= b THEN a ELSE b

Row(t, d) == [table |-> t, data |-> d]

Ids(S) == {it.id : it \in S}

RECURSIVE SortById(_)
SortById(S) ==
    IF S = {} THEN <<>>
    ELSE LET m == CHOOSE x \in S : \A y \in S : x.id <= y.id
         IN  <<m>> \o SortById(S \ {m})

\* store.getAll(): every item of the object store, in key order.
getOfflineQueue(q) == SortById(q)

\* An add that reports success and stores nothing.
AddNothing(q, id, t, d) == q

\* `timestamp: Date.now()` of line 50.  Nothing reads the timestamp of a
\* queued item; the clock of the model reads the number of the enqueue.
EnqueuedAt(id) == id

\* An add that writes its own timestamp on the items already stored.
AddRestamps(q, id, t, d) ==
    {[it EXCEPT !.timestamp = EnqueuedAt(id)] : it \in q} \cup
       {[id |-> id, table |-> t, data |-> d, timestamp |-> EnqueuedAt(id)]}

\* store.add(item) with a fresh id.
addToOfflineQueue(q, id, t, d) ==
    q \cup {[id |-> id, table |-> t, data |-> d, timestamp |-> EnqueuedAt(id)]}

\* A delete that reports success and removes nothing.
RemoveNothing(q, id) == q

\* A delete that empties the store.
RemoveAll(q, id) == {}

\* A delete that empties the store when the key is absent.
RemoveAbsentClears(q, id) == IF id \in Ids(q) THEN {it \in q : it.id # id} ELSE {}

\* store.delete(id): deleting a key that is absent is not an error.
removeFromOfflineQueue(q, id) == {it \in q : it.id # id}

\* supabase.from(table).insert(data) resolving without error.
RemoteInsert(r, t, d) == r (+) SetToBag({Row(t, d)})

\* The guard without its in-flight test.
SyncGuardNoRef(online, ref) == online

\* The guard without its connectivity test.
SyncGuardNoOnline(online, ref) == ~ref

\* useOnlineStatus(): the monitor's value after a window event of the given
\* kind is true after 'online' and false after 'offline'.
useOnlineStatus(current, event) == event = "online"

\* Line 17 of syncQueue, negated: the pass runs only when online and no pass
\* of this instance is in flight.
SyncGuard(online, ref) == online /\ ~ref

\* A success that leaves the count as it was.
DecrementNone(prev) == prev

\* A decrement without the floor.
DecrementUnclamped(prev) == prev - 1

\* Math.max(0, prev - 1)
Decrement(prev) == Max(0, prev - 1)

\* An enqueue counted twice.
IncrementTwice(prev) == prev + 2

\* prev + 1 of lines 69 and 74
Increment(prev) == prev + 1

\* A syncQueue activation: its owner, where it is suspended (pc: awaiting
\* getOfflineQueue, an insert or a removeFromOfflineQueue), its snapshot and
\* the index of the item in hand.  The remaining fields are history: the ids
\* whose insert failed, the ids whose dequeue was rejected, whether nothing
\* else has written the queue since the snapshot (alone), and the ids queued
\* (seen) and already dequeued (gone) when the snapshot was taken, and,
\* until the snapshot is taken, the ids queued when syncQueue() was called
\* (start).
NewPass(i) ==
    [owner |-> i, pc |-> "list", snap |-> <<>>, idx |-> 0, failed |-> {},
     kept |-> {}, alone |-> TRUE, seen |-> {}, gone |-> {},
     start |-> Ids(queue)]

Summary(p) ==
    [owner |-> p.owner, snap |-> p.snap, idx |-> p.idx, failed |-> p.failed,
     kept |-> p.kept, alone |-> p.alone, seen |-> p.seen, gone |-> p.gone]

\* What the step just taken did at the pass level: the instances whose
\* syncQueue() call returned at line 17 with a pass in flight, the pass that
\* ran its finally block, if any, and the instances whose syncQueue() call
\* returned at line 17 because the monitor read offline.
Obs(co, en) == [coalesced |-> co, ended |-> en, ignored |-> {}]

\* -------------------------------------------------------------------- Init
\* The page has loaded and no component has mounted yet.  The queue holds
\* what an earlier session left behind; the browser is online or offline.
Init ==
    /\ isOnline \in BOOLEAN
    /\ \E k \in 0..MaxInitQueue :
          /\ queue = {[id |-> j, table |-> PersistedTable,
                        data |-> <<"persisted", j>>,
                        timestamp |-> EnqueuedAt(j)] : j \in 1..k}
          /\ nextId = k + 1
    /\ remote = EmptyBag
    /\ mounted = {}
    /\ pendingCount = [i \in Instances |-> 0]
    /\ isSyncing = [i \in Instances |-> FALSE]
    /\ isSyncingRef = [i \in Instances |-> FALSE]
    /\ loading = {}
    /\ passes = {}
    /\ submits = {}
    /\ returned = {}
    /\ dequeued = {}
    /\ faults = 0
    /\ last = Obs({}, NoPass)
    /\ handlers = {}
    /\ handled = {}
    /\ notes = {}
    /\ dbCall = NoCall
    /\ cache = {}
    /\ written = [k \in CacheKeys |-> Null]
    /\ cacheCall = NoCall
    /\ inflight = {}
    /\ cash = BlankCash
    /\ heard = NoEvent
    /\ during = {}

\* --------------------------------------------------- starting a drain pass
\* syncQueue() called on every instance of T while the monitor reads
\* `online`: lines 16-22 up to the first await (getOfflineQueue()).
Started(T, online) == {i \in T : SyncGuard(online, isSyncingRef[i])}

\* The calls that return at line 17 because a pass is already in flight.
Coalesced(T, online) == {i \in T : online /\ isSyncingRef[i]}

\* The calls that return at line 17 because of `!isOnline`.
Ignored(T, online) == {i \in T : ~online}

Trigger(T, online) ==
    /\ passes' = passes \cup {NewPass(i) : i \in Started(T, online)}
    /\ isSyncingRef' = [i \in Instances |->
                          IF i \in Started(T, online) THEN TRUE ELSE isSyncingRef[i]]
    /\ isSyncing' = [i \in Instances |->
                          IF i \in Started(T, online) THEN TRUE ELSE isSyncing[i]]

\* A component calling useOfflineSync() mounts: the state hooks take their
\* initial values, the effect of lines 43-47 calls syncQueue() when online
\* and the effect of lines 49-55 starts loadPendingCount().
Mount(i) ==
    /\ i \notin mounted
    /\ i = "Form" => "Layout" \in mounted
    /\ mounted' = mounted \cup {i}
    /\ Trigger({i}, isOnline)
    /\ loading' = loading \cup {i}
    /\ last' = Obs(Coalesced({i}, isOnline), NoPass)
    /\ UNCHANGED sideVars
    /\ UNCHANGED <<isOnline, queue, nextId, remote, pendingCount, submits,
                   returned, dequeued, faults>>

\* An 'online' event that re-runs the effect whether the value changed or
\* not.
OnlineEventRetriggers ==
    /\ isOnline' = useOnlineStatus(isOnline, "online")
    /\ Trigger(mounted, TRUE)
    /\ last' = Obs(Coalesced(mounted, TRUE), NoPass)
    /\ UNCHANGED <<queue, nextId, remote, mounted, pendingCount, loading,
                   submits, returned, dequeued, faults>>

\* What the window's 'online' event does to the hook.  A change of the
\* monitor's value re-renders every mounted instance and re-runs the effect
\* of lines 43-47; an event that repeats the current value changes nothing.
OnlineEventCore ==
    /\ isOnline' = useOnlineStatus(isOnline, "online")
    /\ IF isOnline
         THEN /\ UNCHANGED <<passes, isSyncingRef, isSyncing>>
              /\ last' = Obs({}, NoPass)
         ELSE /\ Trigger(mounted, TRUE)
              /\ last' = Obs(Coalesced(mounted, TRUE), NoPass)
    /\ UNCHANGED <<queue, nextId, remote, mounted, pendingCount, loading,
                   submits, returned, dequeued, faults>>

\* An 'online' event after which the effect of lines 43-47 does not run.
OnlineEventNoEffect ==
    /\ isOnline' = useOnlineStatus(isOnline, "online")
    /\ UNCHANGED <<passes, isSyncingRef, isSyncing>>
    /\ last' = Obs({}, NoPass)
    /\ UNCHANGED sideVars
    /\ UNCHANGED <<queue, nextId, remote, mounted, pendingCount, loading,
                   submits, returned, dequeued, faults>>

\* The window's 'online' event.
OnlineEvent == OnlineEventCore /\ UNCHANGED sideVars

\* What the window's 'offline' event does to the hook: the effect re-runs
\* and does nothing.
OfflineEventCore ==
    /\ isOnline' = useOnlineStatus(isOnline, "offline")
    /\ last' = Obs({}, NoPass)
    /\ UNCHANGED <<queue, nextId, remote, mounted, pendingCount, isSyncing,
                   isSyncingRef, loading, passes, submits, returned, dequeued,
                   faults>>

\* The window's 'offline' event.
OfflineEvent == OfflineEventCore /\ UNCHANGED sideVars

\* The same two events with the dispatch recorded, as the monitor's test
\* dispatches them: the kind of the event, a bit that flips at every
\* dispatch, and whether the event repeated the value the monitor held.
Dispatched(kind) ==
    /\ heard' = [event |-> kind, tick |-> 1 - heard.tick,
                 repeated |-> isOnline = (kind = "online")]
    /\ UNCHANGED <<handlers, handled, notes, dbCall, cache, written,
                   cacheCall, inflight, cash, during>>

DispatchOnline == OnlineEventCore /\ Dispatched("online")

DispatchOffline == OfflineEventCore /\ Dispatched("offline")

\* syncQueue() called by hand (the header's sync button).
SyncQueue(i) ==
    /\ i \in mounted
    /\ Trigger({i}, isOnline)
    /\ last' = [Obs(Coalesced({i}, isOnline), NoPass)
                   EXCEPT !.ignored = Ignored({i}, isOnline)]
    /\ UNCHANGED sideVars
    /\ UNCHANGED <<isOnline, queue, nextId, remote, mounted, pendingCount,
                   loading, submits, returned, dequeued, faults>>

\* ------------------------------------------------------ the drain pass
\* Passes other than p lose `alone` when the queue changes under them.
Disturbed(ps) == {[q EXCEPT !.alone = FALSE] : q \in ps}

\* A finally block that resets the rendered flag and leaves the ref set.
FinallyKeepsRef(p, done) ==
    /\ passes' = done
    /\ isSyncingRef' = isSyncingRef
    /\ isSyncing' = [isSyncing EXCEPT ![p.owner] = FALSE]

\* The finally block of lines 37-40.
Finally(p, done) ==
    /\ passes' = done
    /\ isSyncingRef' = [isSyncingRef EXCEPT ![p.owner] = FALSE]
    /\ isSyncing' = [isSyncing EXCEPT ![p.owner] = FALSE]

\* A loop that re-reads the queue: items enqueued since the snapshot are
\* appended to the items still to process.
AdvanceLive(p2, others) ==
    LET have == {p2.snap[k].id : k \in 1..Len(p2.snap)}
        p3 == [p2 EXCEPT !.snap = @ \o SortById({it \in queue : it.id \notin have})]
    IN  IF p3.idx < Len(p3.snap)
          THEN /\ passes' = others \cup {[p3 EXCEPT !.pc = "insert", !.idx = @ + 1]}
               /\ UNCHANGED <<isSyncingRef, isSyncing>>
               /\ last' = Obs({}, NoPass)
          ELSE /\ Finally(p3, others)
               /\ last' = Obs({}, Summary(p3))

\* The for loop of line 25 moves to its next item, whose insert it awaits,
\* or is exhausted and the finally block runs.  p2 is p after this item,
\* others the remaining activations.
Advance(p2, others) ==
    IF p2.idx < Len(p2.snap)
      THEN /\ passes' = others \cup {[p2 EXCEPT !.pc = "insert", !.idx = @ + 1]}
           /\ UNCHANGED <<isSyncingRef, isSyncing>>
           /\ last' = Obs({}, NoPass)
      ELSE /\ Finally(p2, others)
           /\ last' = Obs({}, Summary(p2))

\* `await getOfflineQueue()` of line 22 resolves: the snapshot is taken,
\* setPendingCount(queue.length), and the loop starts.
SyncListDone(p) ==
    /\ p \in passes /\ p.pc = "list"
    /\ LET p2 == [p EXCEPT !.snap = getOfflineQueue(queue), !.alone = TRUE,
                           !.seen = Ids(queue), !.gone = dequeued,
                           !.start = {}]
       IN  /\ pendingCount' = [pendingCount EXCEPT ![p.owner] = Len(p2.snap)]
           /\ Advance(p2, passes \ {p})
    /\ UNCHANGED sideVars
    /\ UNCHANGED <<isOnline, queue, nextId, remote, mounted, loading, submits,
                   returned, dequeued, faults>>

\* getOfflineQueue() rejects: nothing catches it, the finally block runs.
SyncListFail(p) ==
    /\ p \in passes /\ p.pc = "list"
    /\ faults < MaxStorageFaults
    /\ faults' = faults + 1
    /\ Finally(p, passes \ {p})
    /\ last' = Obs({}, NoPass)
    /\ UNCHANGED sideVars
    /\ UNCHANGED <<isOnline, queue, nextId, remote, mounted, pendingCount,
                   loading, submits, returned, dequeued>>

\* `await supabase.from(item.table).insert(item.data)` of line 27 settles.
\* Without error: removeFromOfflineQueue(item.id) is called and awaited.
\* With an error, or thrown: the item is left and the loop goes on.
InsertErrorIgnored(o) == o # "throw"

\* `if (!error)` of line 29, reached when the awaited insert did not throw.
InsertSucceeded(o) == o = "ok"

SyncInsertDone(p, o) ==
    /\ p \in passes /\ p.pc = "insert"
    /\ LET item == p.snap[p.idx]
       IN  IF InsertSucceeded(o)
             THEN /\ remote' = IF o = "ok"
                                 THEN RemoteInsert(remote, item.table, item.data)
                                 ELSE remote
                  /\ passes' = (passes \ {p}) \cup {[p EXCEPT !.pc = "remove"]}
                  /\ last' = Obs({}, NoPass)
                  /\ UNCHANGED <<isSyncingRef, isSyncing>>
             ELSE /\ remote' = remote
                  /\ Advance([p EXCEPT !.failed = @ \cup {item.id}],
                             passes \ {p})
    /\ UNCHANGED sideVars
    /\ UNCHANGED <<isOnline, queue, nextId, mounted, pendingCount, loading,
                   submits, returned, dequeued, faults>>

\* `await removeFromOfflineQueue(item.id)` of line 30 resolves, then
\* setPendingCount(prev => Math.max(0, prev - 1)).
SyncRemoveDone(p) ==
    /\ p \in passes /\ p.pc = "remove"
    /\ LET item == p.snap[p.idx]
       IN  /\ queue' = removeFromOfflineQueue(queue, item.id)
           /\ dequeued' = dequeued \cup {item.id}
           /\ pendingCount' = [pendingCount EXCEPT ![p.owner] = Decrement(@)]
           /\ Advance(p, Disturbed(passes \ {p}))
    /\ UNCHANGED sideVars
    /\ UNCHANGED <<isOnline, nextId, remote, mounted, loading, submits,
                   returned, faults>>

\* removeFromOfflineQueue() rejects: the catch of line 33 logs it, the item
\* stays in the queue and the loop goes on.
SyncRemoveFail(p) ==
    /\ p \in passes /\ p.pc = "remove"
    /\ faults < MaxStorageFaults
    /\ faults' = faults + 1
    /\ Advance([p EXCEPT !.kept = @ \cup {p.snap[p.idx].id}], passes \ {p})
    /\ UNCHANGED sideVars
    /\ UNCHANGED <<isOnline, queue, nextId, remote, mounted, pendingCount,
                   loading, submits, returned, dequeued>>

\* ------------------------------------------------------ loadPendingCount
\* `await getOfflineQueue()` of line 51 resolves: setPendingCount(length).
LoadedCountStale(q) == 0

\* `queue.length` of line 52, on the array getOfflineQueue() resolved with.
LoadedCount(q) == Len(getOfflineQueue(q))

LoadDone(i) ==
    /\ i \in loading
    /\ loading' = loading \ {i}
    /\ pendingCount' = [pendingCount EXCEPT ![i] = LoadedCount(queue)]
    /\ last' = Obs({}, NoPass)
    /\ UNCHANGED sideVars
    /\ UNCHANGED <<isOnline, queue, nextId, remote, mounted, isSyncing,
                   isSyncingRef, passes, submits, returned, dequeued, faults>>

\* It rejects: the rejection is unhandled and the count stays as it is.
LoadFail(i) ==
    /\ i \in loading
    /\ faults < MaxStorageFaults
    /\ faults' = faults + 1
    /\ loading' = loading \ {i}
    /\ last' = Obs({}, NoPass)
    /\ UNCHANGED sideVars
    /\ UNCHANGED <<isOnline, queue, nextId, remote, mounted, pendingCount,
                   isSyncing, isSyncingRef, passes, submits, returned,
                   dequeued>>

\* ---------------------------------------------- submitWithOfflineSupport
Calls == Cardinality(submits) + Cardinality(returned)

Settled(s, result) ==
    [owner |-> s.owner, table |-> s.table, data |-> s.data,
     online |-> s.online, inserts |-> s.inserts, result |-> result]

\* submitWithOfflineSupport(table, data) is called: online, the remote
\* insert of line 64 is issued; offline, addToOfflineQueue of line 73.  The
\* forms disable their submit button while a submission is in flight
\* (CashActionModule.tsx line 408), so an instance has one call at a time.
SubmitCall(i, t) ==
    /\ i \in mounted
    /\ Calls < MaxSubmits
    /\ \A s \in submits : s.owner # i
    /\ submits' = submits \cup
          {[owner |-> i, table |-> t, data |-> <<"submit", Calls + 1>>,
            online |-> isOnline, inserts |-> IF isOnline THEN 1 ELSE 0,
            pc |-> IF isOnline THEN "insert" ELSE "add"]}
    /\ last' = Obs({}, NoPass)
    /\ UNCHANGED <<isOnline, queue, nextId, remote, mounted, pendingCount,
                   isSyncing, isSyncingRef, loading, passes, returned,
                   dequeued, faults>>

\* The call made by a caller the model does not follow further.
Submit(i, t) == SubmitCall(i, t) /\ UNCHANGED sideVars

\* The same call, noted when a drain pass of any instance is in flight at
\* the moment it is made.
SubmitObserved(i, t) ==
    /\ SubmitCall(i, t)
    /\ during' = IF passes # {} THEN during \cup {<<"submit", Calls + 1>>}
                  ELSE during
    /\ UNCHANGED <<handlers, handled, notes, dbCall, cache, written,
                   cacheCall, inflight, cash, heard>>

\* The success path also counting the record as pending.
SubmitInsertDoneCounts(s, o) ==
    /\ s \in submits /\ s.pc = "insert"
    /\ IF o = "ok"
         THEN /\ remote' = RemoteInsert(remote, s.table, s.data)
              /\ submits' = submits \ {s}
              /\ returned' = returned \cup {Settled(s, "remote")}
              /\ pendingCount' = [pendingCount EXCEPT ![s.owner] = Increment(@)]
         ELSE /\ remote' = remote
              /\ submits' = (submits \ {s}) \cup {[s EXCEPT !.pc = "add"]}
              /\ returned' = returned
              /\ pendingCount' = pendingCount
    /\ last' = Obs({}, NoPass)
    /\ UNCHANGED sideVars
    /\ UNCHANGED <<isOnline, queue, nextId, mounted, isSyncing,
                   isSyncingRef, loading, passes, dequeued, faults>>

\* An error result handed back to the caller as a failure instead of being
\* thrown into the catch of line 67.
SubmitInsertDonePropagates(s, o) ==
    /\ s \in submits /\ s.pc = "insert"
    /\ IF o = "ok"
         THEN /\ remote' = RemoteInsert(remote, s.table, s.data)
              /\ submits' = submits \ {s}
              /\ returned' = returned \cup {Settled(s, "remote")}
         ELSE IF o = "error"
         THEN /\ remote' = remote
              /\ submits' = submits \ {s}
              /\ returned' = returned \cup {Settled(s, "rejected")}
         ELSE /\ remote' = remote
              /\ submits' = (submits \ {s}) \cup {[s EXCEPT !.pc = "add"]}
              /\ returned' = returned
    /\ last' = Obs({}, NoPass)
    /\ UNCHANGED sideVars
    /\ UNCHANGED <<isOnline, queue, nextId, mounted, pendingCount, isSyncing,
                   isSyncingRef, loading, passes, dequeued, faults>>

\* The insert of line 64 settles.  Without error: {success: true,
\* offline: false}.  Otherwise the catch of line 67 calls addToOfflineQueue.
SubmitInsertDone(s, o) ==
    /\ s \in submits /\ s.pc = "insert"
    /\ IF o = "ok"
         THEN /\ remote' = RemoteInsert(remote, s.table, s.data)
              /\ submits' = submits \ {s}
              /\ returned' = returned \cup {Settled(s, "remote")}
         ELSE /\ remote' = remote
              /\ submits' = (submits \ {s}) \cup {[s EXCEPT !.pc = "add"]}
              /\ returned' = returned
    /\ last' = Obs({}, NoPass)
    /\ UNCHANGED sideVars
    /\ UNCHANGED <<isOnline, queue, nextId, mounted, pendingCount, isSyncing,
                   isSyncingRef, loading, passes, dequeued, faults>>

\* `await addToOfflineQueue(table, data)` resolves, then
\* setPendingCount(prev => prev + 1) and {success: true, offline: true}.
SubmitAddDone(s) ==
    /\ s \in submits /\ s.pc = "add"
    /\ queue' = addToOfflineQueue(queue, nextId, s.table, s.data)
    /\ nextId' = nextId + 1
    /\ pendingCount' = [pendingCount EXCEPT ![s.owner] = Increment(@)]
    /\ submits' = submits \ {s}
    /\ returned' = returned \cup {Settled(s, "queued")}
    /\ passes' = Disturbed(passes)
    /\ last' = Obs({}, NoPass)
    /\ UNCHANGED sideVars
    /\ UNCHANGED <<isOnline, remote, mounted, isSyncing, isSyncingRef,
                   loading, dequeued, faults>>

\* A rejected enqueue swallowed: the record is counted and reported as
\* queued although nothing was stored.
SubmitAddFailSwallowed(s) ==
    /\ s \in submits /\ s.pc = "add"
    /\ faults < MaxStorageFaults
    /\ faults' = faults + 1
    /\ submits' = submits \ {s}
    /\ returned' = returned \cup {Settled(s, "queued")}
    /\ pendingCount' = [pendingCount EXCEPT ![s.owner] = Increment(@)]
    /\ last' = Obs({}, NoPass)
    /\ UNCHANGED sideVars
    /\ UNCHANGED <<isOnline, queue, nextId, remote, mounted,
                   isSyncing, isSyncingRef, loading, passes, dequeued>>

\* addToOfflineQueue() rejects: the call rejects to its caller.
SubmitAddFail(s) ==
    /\ s \in submits /\ s.pc = "add"
    /\ faults < MaxStorageFaults
    /\ faults' = faults + 1
    /\ submits' = submits \ {s}
    /\ returned' = returned \cup {Settled(s, "rejected")}
    /\ last' = Obs({}, NoPass)
    /\ UNCHANGED sideVars
    /\ UNCHANGED <<isOnline, queue, nextId, remote, mounted, pendingCount,
                   isSyncing, isSyncingRef, loading, passes, dequeued>>


\* ---------------------------------------------------- submission surfaces
\* The forms' gate on sendNotification, given that the submit returned
\* success: the four action forms test `!offline`, the report form tests
\* `status === 'pending_acknowledgment' && employeeEmail`.
Notifies(f, x, result) ==
    /\ result \in {"remote", "queued"}
    /\ IF f.form = "ReportCreationForm"
         THEN x.status = "pending_acknowledgment" /\ x.employeeEmail
         ELSE result = "remote"

\* handleSubmit of the mounted form up to `await
\* submitWithOfflineSupport(table, record)`.  The submit buttons are disabled
\* while `submitting` is set, which a rejected submit leaves set
\* (setSubmitting(false) follows the await).
HandleSubmit(i, f, x) ==
    /\ handlers = {}
    /\ \A h \in handled : h.form = f.form /\ ~h.submitting
    /\ SubmitCall(i, f.table)
    /\ handlers' = {[form |-> f, input |-> x, data |-> <<"submit", Calls + 1>>]}
    /\ UNCHANGED <<handled, notes, dbCall, areaVars>>

\* handleSubmit after the await: on success the gate decides whether
\* sendNotification is called (it is not awaited), then setSubmitting(false);
\* a rejected submit rejects handleSubmit at the await.
HandleSubmitResumes(h) ==
    /\ h \in handlers
    /\ \E r \in returned :
          /\ r.data = h.data
          /\ LET go == Notifies(h.form, h.input, r.result)
             IN  /\ handled' = handled \cup
                       {[form |-> h.form.form, input |-> h.input,
                         data |-> h.data, result |-> r.result,
                         notified |-> go,
                         submitting |-> r.result = "rejected"]}
                 /\ notes' = IF go
                               THEN notes \cup {[data |-> h.data,
                                       pc |-> "session", settled |-> "pending",
                                       log |-> "none", posts |-> <<>>]}
                               ELSE notes
    /\ handlers' = handlers \ {h}
    /\ UNCHANGED <<isOnline, queue, nextId, remote, mounted, pendingCount,
                   isSyncing, isSyncingRef, loading, passes, submits,
                   returned, dequeued, faults, last, dbCall, areaVars>>

\* ------------------------------------------------------ the store form
StoreSurface == [form |-> "StoreActionModule", table |-> "store_actions"]

\* The ids of the two lists; the first three of the eight items of each.
OPENING_CHECKLIST_ITEMS == {"open-1", "open-2", "open-3"}

CLOSING_CHECKLIST_ITEMS == {"close-1", "close-2", "close-3"}

\* initializeChecklist(type) followed by any number of
\* toggleChecklistItem(id): the items of the type, each completed or not.
Checklists(ids) ==
    {{[id |-> i, completed |-> i \in done] : i \in ids} : done \in SUBSET ids}

\* The form as the three buttons of lines 663-706 and the toggles leave it:
\* a checklist with its items, or a maintenance request with none.
StoreInputs ==
    {[actionType |-> "opening_checklist", checklistItems |-> c] :
        c \in Checklists(OPENING_CHECKLIST_ITEMS)}
    \cup {[actionType |-> "closing_checklist", checklistItems |-> c] :
              c \in Checklists(CLOSING_CHECKLIST_ITEMS)}
    \cup {[actionType |-> "maintenance", checklistItems |-> {}]}

completedCount(x) == Cardinality({i \in x.checklistItems : i.completed})

totalCount(x) == Cardinality(x.checklistItems)

\* A submit button that is never disabled by the checklist.
SubmitAlwaysEnabled(x) == TRUE

\* The submit button of lines 941-944 is not disabled by the checklist
\* (`submitting` is the guard of HandleSubmit).
SubmitEnabled(x) ==
    ~(x.actionType # "maintenance" /\ completedCount(x) < totalCount(x))

\* newAction of lines 555-568, the record handed to submitWithOfflineSupport.
StoreRecord(x) ==
    [action_type |-> x.actionType,
     checklist_items |-> IF x.actionType # "maintenance"
                           THEN x.checklistItems ELSE {},
     completed |-> x.actionType = "maintenance"
                      \/ completedCount(x) = totalCount(x)]

\* The user presses the submit button of the store form: handleSubmit runs
\* up to its await.
StoreHandleSubmit(i, x) ==
    /\ SubmitEnabled(x)
    /\ HandleSubmit(i, StoreSurface, x)

\* ------------------------------------------------------- sendNotification
Resolved(n, log) ==
    [n EXCEPT !.pc = "done", !.settled = "resolved", !.log = log]

NoteFrame ==
    UNCHANGED <<isOnline, queue, nextId, remote, mounted, pendingCount,
                isSyncing, isSyncingRef, loading, passes, submits, returned,
                dequeued, faults, last, handlers, handled, dbCall, areaVars>>

\* JSON.stringify(data) of line 31: the text of the notification's fields.
Stringify(d) == <<"json", d>>

\* The request of lines 25-32: a POST to the send-notification function
\* whose body is the notification data as JSON.
PostRequest(d) ==
    [method |-> "POST", url |-> "/functions/v1/send-notification",
     body |-> Stringify(d)]

\* `await supabase.auth.getSession()` of line 17 settles: with a token the
\* POST is issued; without one the function logs and returns; a throw is
\* caught at line 38.
Posted(n) == [n EXCEPT !.pc = "fetch", !.posts = Append(@, PostRequest(n.data))]

\* A missing token that is logged without returning.
NoteSessionDoneFallsThrough(n, o) ==
    /\ n \in notes /\ n.pc = "session"
    /\ notes' = (notes \ {n}) \cup
          {IF o = "token" THEN Posted(n)
           ELSE IF o = "none" THEN [Posted(n) EXCEPT !.log = "no-token"]
           ELSE Resolved(n, "error")}
    /\ NoteFrame

NoteSessionDone(n, o) ==
    /\ n \in notes /\ n.pc = "session"
    /\ notes' = (notes \ {n}) \cup
          {IF o = "token" THEN Posted(n)
           ELSE IF o = "none" THEN Resolved(n, "no-token")
           ELSE Resolved(n, "error")}
    /\ NoteFrame

\* `await fetch(...)` of line 25 settles: ok, not ok (the body is read for
\* the log) or thrown.
NoteFetchDone(n, o) ==
    /\ n \in notes /\ n.pc = "fetch"
    /\ notes' = (notes \ {n}) \cup
          {IF o = "ok" THEN Resolved(n, "none")
           ELSE IF o = "notok" THEN [n EXCEPT !.pc = "text"]
           ELSE Resolved(n, "error")}
    /\ NoteFrame

\* A body read whose failure escapes the function.
NoteTextDoneEscapes(n, o) ==
    /\ n \in notes /\ n.pc = "text"
    /\ notes' = (notes \ {n}) \cup
          {IF o = "ok" THEN Resolved(n, "failed")
           ELSE [n EXCEPT !.pc = "done", !.settled = "rejected"]}
    /\ NoteFrame

\* `await response.text()` of line 35 settles.
NoteTextDone(n, o) ==
    /\ n \in notes /\ n.pc = "text"
    /\ notes' = (notes \ {n}) \cup
          {IF o = "ok" THEN Resolved(n, "failed") ELSE Resolved(n, "error")}
    /\ NoteFrame

\* ------------------------------------------- the queue interface, directly
DbFrame ==
    UNCHANGED <<isOnline, remote, mounted, pendingCount, isSyncing,
                isSyncingRef, loading, passes, submits, returned, dequeued,
                last, handlers, handled, notes, areaVars>>

\* addToOfflineQueue(t, d) resolves with the new item's id.
DbAdd(t, d) ==
    /\ nextId <= MaxInitQueue + MaxSubmits
    /\ queue' = addToOfflineQueue(queue, nextId, t, d)
    /\ nextId' = nextId + 1
    /\ dbCall' = [op |-> "add", id |-> nextId, table |-> t, data |-> d,
                  before |-> queue, listed |-> FALSE, list |-> <<>>]
    /\ faults' = faults
    /\ DbFrame

\* removeFromOfflineQueue(id) resolves.
DbRemove(id) ==
    /\ queue' = removeFromOfflineQueue(queue, id)
    /\ dbCall' = [op |-> "remove", id |-> id, table |-> "", data |-> <<>>,
                  before |-> queue, listed |-> FALSE, list |-> <<>>]
    /\ UNCHANGED <<nextId, faults>>
    /\ DbFrame

\* getOfflineQueue() resolves with the items of the store.
DbGet ==
    /\ dbCall # NoCall
    /\ dbCall' = [dbCall EXCEPT !.listed = TRUE, !.list = getOfflineQueue(queue)]
    /\ UNCHANGED <<queue, nextId, faults>>
    /\ DbFrame

\* A request of any of the three fires its error event: the call rejects and
\* the store is as it was.
DbReject ==
    /\ faults < MaxStorageFaults
    /\ faults' = faults + 1
    /\ dbCall' = [op |-> "rejected", id |-> 0, table |-> "", data |-> <<>>,
                  before |-> queue, listed |-> FALSE, list |-> <<>>]
    /\ UNCHANGED <<queue, nextId>>
    /\ DbFrame

\* ----------------------------------------------------------- the cash form
\* Amounts are counted in cents.
Dollars(n) == n * 100

Abs(n) == IF n < 0 THEN 0 - n ELSE n

\* What the two amount fields (type="number", step="0.01") can hold: nothing,
\* or an amount.
AmountFields ==
    {[blank |-> TRUE, cents |-> 0]} \cup
    {[blank |-> FALSE, cents |-> c] :
        c \in {0, 1000, 1999, 2000, 4999, 5000, 9999, 10000, 10001}}

CashActionTypes == {"reconciliation", "shortage"}

\* `parseFloat(field) || 0`: an empty field parses to NaN, which `||`
\* replaces by 0.
ParseAmount(field) == IF field.blank THEN 0 ELSE field.cents

\* calculateVariance(): actual - expected
calculateVariance(expectedAmount, actualAmount) ==
    ParseAmount(actualAmount) - ParseAmount(expectedAmount)

\* Thresholds that exclude their boundary value.
CalculateSeverityStrict(variance) ==
    LET absVariance == Abs(variance)
    IN  IF absVariance > Dollars(100) THEN "critical"
        ELSE IF absVariance > Dollars(50) THEN "high"
        ELSE IF absVariance > Dollars(20) THEN "medium"
        ELSE "low"

\* calculateSeverity(variance)
calculateSeverity(variance) ==
    LET absVariance == Abs(variance)
    IN  IF absVariance >= Dollars(100) THEN "critical"
        ELSE IF absVariance >= Dollars(50) THEN "high"
        ELSE IF absVariance >= Dollars(20) THEN "medium"
        ELSE "low"

\* "Cash Shortage Severity (Automatic Classification)" of the project
\* documentation: the tiers it allows for a shortage of the given amount.
\* An amount on a boundary ($5, $20, $50) is allowed either neighbour.
DocumentedSeverity(amount) ==
    {s \in {"low", "medium", "high", "critical"} :
        \/ (s = "low" /\ amount <= Dollars(5))
        \/ (s = "medium" /\ amount >= Dollars(5) /\ amount <= Dollars(20))
        \/ (s = "high" /\ amount >= Dollars(20) /\ amount <= Dollars(50))
        \/ (s = "critical" /\ amount >= Dollars(50))}

CashFrame ==
    UNCHANGED <<isOnline, queue, nextId, remote, mounted, pendingCount,
                isSyncing, isSyncingRef, loading, passes, submits, returned,
                dequeued, faults, last, handlers, handled, notes, dbCall,
                cache, written, cacheCall, inflight, heard, during>>

\* The user picks the action type and types the two amounts.
CashFill(t, e, a) ==
    /\ cash.pc = "blank"
    /\ cash' = [pc |-> "filled", actionType |-> t, expectedAmount |-> e,
                actualAmount |-> a]
    /\ CashFrame

\* A severity derived from the variance whatever the action type.
SeverityOfVariance(actionType, variance) == calculateSeverity(variance)

\* Line 83: actionType === 'shortage' ? calculateSeverity(variance) : 'low'
DerivedSeverity(actionType, variance) ==
    IF actionType = "shortage" THEN calculateSeverity(variance) ELSE "low"

\* Lines 82-83 of handleSubmit and lines 154 and 381 of the render: the
\* variance, the severity of the badge, and the severity of the record,
\* which is computed for a shortage and 'low' otherwise; the same constant
\* is the severity of the notification of lines 113-127.
CashCompute ==
    /\ cash.pc = "filled"
    /\ LET variance == calculateVariance(cash.expectedAmount, cash.actualAmount)
       IN  cash' = [pc |-> "computed", actionType |-> cash.actionType,
                    expectedAmount |-> cash.expectedAmount,
                    actualAmount |-> cash.actualAmount,
                    variance |-> variance,
                    badge |-> calculateSeverity(variance),
                    severity |-> DerivedSeverity(cash.actionType, variance),
                    notice |-> DerivedSeverity(cash.actionType, variance)]
    /\ CashFrame

\* ------------------------------------- the add request and its transaction
TxFrame ==
    UNCHANGED <<isOnline, remote, mounted, pendingCount, isSyncing,
                isSyncingRef, loading, passes, submits, returned, dequeued,
                last, handlers, handled, notes, cache, written, cacheCall,
                cash, heard, during>>

\* addToOfflineQueue(t, d) up to line 58: the add request fires its success
\* event inside the readwrite transaction of line 54 and the promise
\* resolves with the id.  The transaction has not completed yet.
TxAddSucceeds(t, d) ==
    /\ nextId <= MaxInitQueue + MaxSubmits
    /\ inflight' = inflight \cup {[id |-> nextId, table |-> t, data |-> d]}
    /\ nextId' = nextId + 1
    /\ dbCall' = [op |-> "add", id |-> nextId, table |-> t, data |-> d,
                  before |-> queue, listed |-> FALSE, list |-> <<>>]
    /\ UNCHANGED <<queue, faults>>
    /\ TxFrame

\* The transaction of line 54 completes: the item is in the store.
TxComplete(it) ==
    /\ it \in inflight
    /\ queue' = addToOfflineQueue(queue, it.id, it.table, it.data)
    /\ inflight' = inflight \ {it}
    /\ UNCHANGED <<nextId, faults, dbCall>>
    /\ TxFrame

\* The page is reloaded or torn down, or the transaction aborts at commit:
\* what the transactions still open had written is rolled back.
TxAbort ==
    /\ inflight # {}
    /\ faults < MaxStorageFaults
    /\ faults' = faults + 1
    /\ inflight' = {}
    /\ UNCHANGED <<queue, nextId, dbCall>>
    /\ TxFrame

\* getOfflineQueue() resolves; its transaction starts once the readwrite
\* transactions on the store have finished.
TxGet ==
    /\ inflight = {}
    /\ dbCall # NoCall
    /\ dbCall' = [dbCall EXCEPT !.listed = TRUE, !.list = getOfflineQueue(queue)]
    /\ UNCHANGED <<queue, nextId, faults, inflight>>
    /\ TxFrame

\* ------------------------------------------- the cache interface, directly
\* store.put({ key, table, data, timestamp }) on a store whose keyPath is
\* 'key': the entry of that key, if any, is replaced.
cacheData(c, key, table, data, ts) ==
    {e \in c : e.key # key} \cup
       {[key |-> key, table |-> table, data |-> data, timestamp |-> ts]}

\* `request.result?.data || null`: without an entry request.result is
\* undefined; with one, `||` yields null when the stored data is falsy.
getCachedData(c, key) ==
    LET hit == {e \in c : e.key = key}
    IN  IF hit = {} THEN Null
        ELSE LET e == CHOOSE x \in hit : TRUE
             IN  IF e.data \in FalsyValues \cup {Null} THEN Null ELSE e.data

\* A clear that empties the cachedData store alone.
ClearCachedDataOnly(q, c) == [queue |-> q, cache |-> {}]

\* One readwrite transaction over both stores clears cachedData and
\* offlineQueue; the promise resolves on transaction.oncomplete.
clearCache(q, c) == [queue |-> {}, cache |-> {}]

\* The record of a call: its arguments, what it resolved with, and whether
\* the queue and the cache held anything when it was made.
CacheCall(op, key, data, ts, result) ==
    [op |-> op, key |-> key, data |-> data, timestamp |-> ts,
     result |-> result, held |-> <<queue # {}, cache # {}>>]

CacheFrame ==
    UNCHANGED <<isOnline, remote, mounted, pendingCount, isSyncing,
                isSyncingRef, loading, passes, submits, returned, dequeued,
                last, handlers, handled, notes, dbCall, nextId, inflight,
                cash, heard, during>>

\* cacheData(k, table, v) resolves.
CachePut(k, v, ts) ==
    /\ cache' = cacheData(cache, k, CacheTable, v, ts)
    /\ written' = [written EXCEPT ![k] = v]
    /\ cacheCall' = CacheCall("put", k, v, ts, Null)
    /\ UNCHANGED <<queue, faults>>
    /\ CacheFrame

\* getCachedData(k) resolves.
CacheGet(k) ==
    /\ cacheCall' = CacheCall("get", k, Null, 0, getCachedData(cache, k))
    /\ UNCHANGED <<queue, faults, cache, written>>
    /\ CacheFrame

\* clearCache() resolves.
ClearCache ==
    /\ queue' = clearCache(queue, cache).queue
    /\ cache' = clearCache(queue, cache).cache
    /\ written' = [k \in CacheKeys |-> Null]
    /\ cacheCall' = CacheCall("clear", "", Null, 0, Null)
    /\ UNCHANGED faults
    /\ CacheFrame

\* The transaction of clearCache() fires its error event: it is aborted as
\* a whole and the call rejects.
ClearCacheFail ==
    /\ faults < MaxStorageFaults
    /\ faults' = faults + 1
    /\ cacheCall' = CacheCall("rejected", "", Null, 0, Null)
    /\ UNCHANGED <<queue, cache, written>>
    /\ CacheFrame

\* -------------------------------------------------------------------- Next
Next ==
    \/ \E i \in AppInstances : Mount(i)
    \/ OnlineEvent
    \/ OfflineEvent
    \/ SyncQueue("Layout")
    \/ \E p \in passes : SyncListDone(p)
    \/ \E p \in passes : SyncListFail(p)
    \/ \E p \in passes, o \in Outcomes : SyncInsertDone(p, o)
    \/ \E p \in passes : SyncRemoveDone(p)
    \/ \E p \in passes : SyncRemoveFail(p)
    \/ \E i \in AppInstances : LoadDone(i)
    \/ \E i \in AppInstances : LoadFail(i)
    \/ Submit("Form", FormTable)
    \/ \E s \in submits, o \in Outcomes : SubmitInsertDone(s, o)
    \/ \E s \in submits : SubmitAddDone(s)
    \/ \E s \in submits : SubmitAddFail(s)

Spec == Init /\ [][Next]_vars

\* One hook instance mounted alone, every operation of its interface open to
\* the caller (useOfflineSync.test.ts).
NextHook ==
    \/ Mount("Hook")
    \/ OnlineEvent
    \/ OfflineEvent
    \/ SyncQueue("Hook")
    \/ \E p \in passes : SyncListDone(p)
    \/ \E p \in passes : SyncListFail(p)
    \/ \E p \in passes, o \in Outcomes : SyncInsertDone(p, o)
    \/ \E p \in passes : SyncRemoveDone(p)
    \/ \E p \in passes : SyncRemoveFail(p)
    \/ LoadDone("Hook")
    \/ LoadFail("Hook")
    \/ Submit("Hook", FormTable)
    \/ \E s \in submits, o \in Outcomes : SubmitInsertDone(s, o)
    \/ \E s \in submits : SubmitAddDone(s)
    \/ \E s \in submits : SubmitAddFail(s)

SpecHook == Init /\ [][NextHook]_vars


\* A submission surface rendered with its own hook instance; the forms call
\* submitWithOfflineSupport and never syncQueue.  Connectivity stays as it
\* was when the page loaded.
NextSurface ==
    \/ Mount("Hook")
    \/ \E p \in passes : SyncListDone(p)
    \/ \E p \in passes : SyncListFail(p)
    \/ \E p \in passes, o \in Outcomes : SyncInsertDone(p, o)
    \/ \E p \in passes : SyncRemoveDone(p)
    \/ \E p \in passes : SyncRemoveFail(p)
    \/ LoadDone("Hook")
    \/ LoadFail("Hook")
    \/ \E f \in Surfaces : \E x \in Inputs(f) : HandleSubmit("Hook", f, x)
    \/ \E s \in submits, o \in Outcomes : SubmitInsertDone(s, o)
    \/ \E s \in submits : SubmitAddDone(s)
    \/ \E s \in submits : SubmitAddFail(s)
    \/ \E h \in handlers : HandleSubmitResumes(h)
    \/ \E n \in notes, o \in SessionOutcomes : NoteSessionDone(n, o)
    \/ \E n \in notes, o \in FetchOutcomes : NoteFetchDone(n, o)
    \/ \E n \in notes, o \in TextOutcomes : NoteTextDone(n, o)

SpecSurface == Init /\ [][NextSurface]_vars

\* The queue interface of offlineDb called directly (offlineDb.test.ts).
NextDb ==
    \/ \E t \in Tables, d \in Payloads : DbAdd(t, d)
    \/ \E id \in 1..nextId : DbRemove(id)
    \/ DbGet
    \/ DbReject

SpecDb == Init /\ [][NextDb]_vars

\* The cache interface of offlineDb called directly, as the tests of
\* offlineDb.test.ts lines 50-84 do.
NextCache ==
    \/ \E k \in CacheKeys, v \in CacheValues, ts \in Times : CachePut(k, v, ts)
    \/ \E k \in CacheKeys : CacheGet(k)
    \/ ClearCache
    \/ ClearCacheFail

SpecCache == Init /\ [][NextCache]_vars

\* The two stores side by side: queue calls and cache calls interleaved
\* (offlineDb.test.ts lines 73-83), the cache written with one value.
NextStores ==
    \/ DbAdd(FormTable, <<"payload", 1>>)
    \/ \E id \in 1..nextId : DbRemove(id)
    \/ \E k \in CacheKeys : CachePut(k, <<"object", "{data:123}">>, 1)
    \/ ClearCache
    \/ ClearCacheFail

SpecStores == Init /\ [][NextStores]_vars

\* addToOfflineQueue followed down to its transaction, with the page free
\* to go away between the call's return and the commit.
NextTx ==
    \/ \E d \in Payloads : TxAddSucceeds(FormTable, d)
    \/ \E it \in inflight : TxComplete(it)
    \/ TxAbort
    \/ TxGet

SpecTx == Init /\ [][NextTx]_vars

\* The cash form's arithmetic on the amounts the user types.
NextCash ==
    \/ \E t \in CashActionTypes, e \in AmountFields, a \in AmountFields :
          CashFill(t, e, a)
    \/ CashCompute

SpecCash == Init /\ [][NextCash]_vars

\* The store form rendered with its own hook instance; connectivity stays
\* as it was when the page loaded.
NextChecklist ==
    \/ Mount("Hook")
    \/ \E p \in passes : SyncListDone(p)
    \/ \E p \in passes : SyncListFail(p)
    \/ \E p \in passes, o \in Outcomes : SyncInsertDone(p, o)
    \/ \E p \in passes : SyncRemoveDone(p)
    \/ \E p \in passes : SyncRemoveFail(p)
    \/ LoadDone("Hook")
    \/ LoadFail("Hook")
    \/ \E x \in StoreInputs : StoreHandleSubmit("Hook", x)
    \/ \E s \in submits, o \in Outcomes : SubmitInsertDone(s, o)
    \/ \E s \in submits : SubmitAddDone(s)
    \/ \E s \in submits : SubmitAddFail(s)
    \/ \E h \in handlers : HandleSubmitResumes(h)
    \/ \E n \in notes, o \in SessionOutcomes : NoteSessionDone(n, o)
    \/ \E n \in notes, o \in FetchOutcomes : NoteFetchDone(n, o)
    \/ \E n \in notes, o \in TextOutcomes : NoteTextDone(n, o)

SpecChecklist == Init /\ [][NextChecklist]_vars

\* The monitor under its test's events, with one hook instance listening.
NextMonitor ==
    \/ Mount("Hook")
    \/ DispatchOnline
    \/ DispatchOffline
    \/ \E p \in passes : SyncListDone(p)
    \/ \E p \in passes : SyncListFail(p)
    \/ \E p \in passes, o \in Outcomes : SyncInsertDone(p, o)
    \/ \E p \in passes : SyncRemoveDone(p)
    \/ \E p \in passes : SyncRemoveFail(p)
    \/ LoadDone("Hook")
    \/ LoadFail("Hook")

SpecMonitor == Init /\ [][NextMonitor]_vars

\* The application (header and form) with the form's submits observed and
\* the local store answering every request.
NextOverlap ==
    \/ \E i \in AppInstances : Mount(i)
    \/ OnlineEvent
    \/ OfflineEvent
    \/ \E p \in passes : SyncListDone(p)
    \/ \E p \in passes, o \in Outcomes : SyncInsertDone(p, o)
    \/ \E p \in passes : SyncRemoveDone(p)
    \/ \E i \in AppInstances : LoadDone(i)
    \/ SubmitObserved("Form", FormTable)
    \/ \E s \in submits, o \in Outcomes : SubmitInsertDone(s, o)
    \/ \E s \in submits : SubmitAddDone(s)

SpecOverlap == Init /\ [][NextOverlap]_vars

\* The awaited requests of a pass settle: an IndexedDB request fires its
\* success or its error event, the remote client resolves or rejects.
PassStep ==
    \E p \in passes :
        \/ SyncListDone(p)
        \/ SyncListFail(p)
        \/ \E o \in Outcomes : SyncInsertDone(p, o)
        \/ SyncRemoveDone(p)
        \/ SyncRemoveFail(p)

\* The Layout header mounted without a form: it reads isOnline, pendingCount
\* and isSyncing, calls syncQueue() and submits nothing.
NextLayout ==
    \/ Mount("Layout")
    \/ OnlineEvent
    \/ OfflineEvent
    \/ SyncQueue("Layout")
    \/ \E p \in passes : SyncListDone(p)
    \/ \E p \in passes : SyncListFail(p)
    \/ \E p \in passes, o \in Outcomes : SyncInsertDone(p, o)
    \/ \E p \in passes : SyncRemoveDone(p)
    \/ \E p \in passes : SyncRemoveFail(p)
    \/ LoadDone("Layout")
    \/ LoadFail("Layout")

SpecLayoutFair == Init /\ [][NextLayout]_vars /\ WF_vars(PassStep)

\* The header and a form module started on a persisted queue: their mount
\* passes and initial loads, with the local store answering every request
\* and nothing submitted.
NextPair ==
    \/ \E i \in AppInstances : Mount(i)
    \/ OnlineEvent
    \/ OfflineEvent
    \/ \E p \in passes : SyncListDone(p)
    \/ \E p \in passes, o \in Outcomes : SyncInsertDone(p, o)
    \/ \E p \in passes : SyncRemoveDone(p)
    \/ \E i \in AppInstances : LoadDone(i)

SpecPair == Init /\ [][NextPair]_vars

\* One hook next to a caller of the cache interface, the local store
\* answering every request: submits, passes whose inserts succeed or fail,
\* and cache writes.
NextItems ==
    \/ Mount("Hook")
    \/ OnlineEvent
    \/ OfflineEvent
    \/ SyncQueue("Hook")
    \/ \E p \in passes : SyncListDone(p)
    \/ \E p \in passes, o \in Outcomes : SyncInsertDone(p, o)
    \/ \E p \in passes : SyncRemoveDone(p)
    \/ LoadDone("Hook")
    \/ Submit("Hook", FormTable)
    \/ \E s \in submits, o \in Outcomes : SubmitInsertDone(s, o)
    \/ \E s \in submits : SubmitAddDone(s)
    \/ CachePut("k1", <<"object", "{data:123}">>, 1)
    \/ CacheGet("k1")

SpecItems == Init /\ [][NextItems]_vars

\* The awaited requests of a submit and of the initial load settle, and
\* the local store serves them.
SubmitStep ==
    \E s \in submits :
        \/ \E o \in Outcomes : SubmitInsertDone(s, o)
        \/ SubmitAddDone(s)

\* The awaited requests of a pass settle, the local store serves them and
\* the remote insert of a pass returns without error.
ReplayStep ==
    \E p \in passes :
        \/ SyncListDone(p)
        \/ SyncInsertDone(p, "ok")
        \/ SyncRemoveDone(p)

\* One hook whose local store and whose replayed inserts never fail; only
\* the direct insert of a submit may fail.
NextReplay ==
    \/ Mount("Hook")
    \/ OnlineEvent
    \/ OfflineEvent
    \/ SyncQueue("Hook")
    \/ \E p \in passes : SyncListDone(p)
    \/ \E p \in passes : SyncInsertDone(p, "ok")
    \/ \E p \in passes : SyncRemoveDone(p)
    \/ LoadDone("Hook")
    \/ Submit("Hook", FormTable)
    \/ \E s \in submits, o \in Outcomes : SubmitInsertDone(s, o)
    \/ \E s \in submits : SubmitAddDone(s)

SpecReplayFair ==
    /\ Init
    /\ [][NextReplay]_vars
    /\ WF_vars(Mount("Hook"))
    /\ WF_vars(ReplayStep)
    /\ WF_vars(LoadDone("Hook"))
    /\ WF_vars(SubmitStep)

\* ================================================================= claims
PassesOf(i) == {p \in passes : p.owner = i}

SnapIds(e) == {e.snap[k].id : k \in 1..Len(e.snap)}

Attempted(e) == {e.snap[k].id : k \in 1..e.idx}

Queued(r) == {it \in queue : it.data = r.data}

\* The queue was empty when the page loaded: every id handed out so far was
\* handed out to a submit that enqueued.
StartedEmpty ==
    nextId - 1 = Cardinality({r \in returned : r.result = "queued"})

\* ------------------------------------------------------------------- C1
OnePassPerEngine ==
    \A i \in Instances :
        /\ Cardinality(PassesOf(i)) <= 1
        /\ isSyncingRef[i] <=> PassesOf(i) # {}

CoalescedIsNoOp ==
    \A i \in last'.coalesced :
        /\ {p \in passes' : p.owner = i} = PassesOf(i)
        /\ pendingCount'[i] = pendingCount[i]
        /\ remote' = remote
        /\ queue' = queue

\* C1: within one useOfflineSync instance at most one drain pass is in
\* flight at any time, and a syncQueue() call made while a pass of that
\* instance is running (by hand or by the connectivity effect) changes
\* nothing: no second pass, no further remote insert, queue and count as
\* they were.
C1_DrainCoalesced == []OnePassPerEngine /\ [][CoalescedIsNoOp]_vars

\* A trigger has just been ignored while the instance's pass was awaiting a
\* remote insert.
C1_Witness ==
    \E i \in last.coalesced : \E p \in PassesOf(i) : p.pc = "insert"

\* ------------------------------------------------------------------- C2
\* C2: over the one shared queue at most one drain pass is active at any
\* instant, whichever instances are mounted.
C2_OneDrainSystemWide == Cardinality(passes) <= 1

\* ------------------------------------------------------------------- C3
\* C3: no payload is ever successfully inserted into the remote collection
\* more than once.
C3_InsertedAtMostOnce ==
    \A r \in BagToSet(remote) : CopiesIn(r, remote) <= 1

\* ------------------------------------------------------------------- C4
\* C4: whenever no submit and no drain is in flight, every record a submit
\* accepted is in the remote store or in the queue, and no queued item's
\* payload has already been inserted remotely.
C4_NoLossNoLinger ==
    (passes = {} /\ submits = {}) =>
        /\ \A r \in returned :
              r.result # "rejected" =>
                 \/ BagIn(Row(r.table, r.data), remote)
                 \/ Queued(r) # {}
        /\ \A it \in queue : ~BagIn(Row(it.table, it.data), remote)

\* ------------------------------------------------------------------- C5
OfflineOnly(i) ==
    /\ StartedEmpty
    /\ submits = {}
    /\ remote = EmptyBag
    /\ \A r \in returned :
          r.owner = i /\ ~r.online /\ r.result = "queued"

C6_IdleCountIsQueueLength ==
    \A i \in mounted :
        ~isSyncingRef[i] => pendingCount[i] = Cardinality(queue)

\* ------------------------------------------------------------------- C7
Quiescent == passes = {} /\ submits = {} /\ loading = {} /\ faults = 0

\* C7: once submits, passes and initial loads have completed (no local-store
\* request having failed), the pendingCount seen through every mounted
\* instance is the number of items in the queue, whichever instance
\* enqueued or dequeued them.
C7_CountSharedAcrossInstances ==
    Quiescent => \A i \in mounted : pendingCount[i] = Cardinality(queue)

\* ------------------------------------------------------------------- C8
\* C8: when a drain pass ends, every item of its snapshot has been attempted
\* and every item whose insert and dequeue succeeded is gone from the queue;
\* if nothing else touched the queue during the pass the items whose insert
\* failed (F) are all still queued, and if moreover every dequeue succeeded
\* the queue holds of the snapshot exactly F and pendingCount is |F|.
C8_PartialFailureIsolation ==
    LET e == last.ended
    IN  e # NoPass =>
          /\ Attempted(e) = SnapIds(e)
          /\ e.failed \cap e.kept = {}
          /\ (Ids(queue) \cap SnapIds(e)) \subseteq (e.failed \cup e.kept)
          /\ e.alone => (e.failed \cup e.kept) \subseteq Ids(queue)
          /\ (e.alone /\ e.kept = {}) =>
                /\ Ids(queue) \cap SnapIds(e) = e.failed
                /\ pendingCount[e.owner] = Cardinality(e.failed)

\* A pass has just ended in which some inserts failed and others succeeded.
C8_Witness ==
    LET e == last.ended
    IN  /\ e # NoPass
        /\ e.alone /\ e.kept = {}
        /\ e.failed # {}
        /\ e.failed # SnapIds(e)

\* ------------------------------------------------------------------- C9
\* C9: a drain pass attempts exactly the items that were in the queue when
\* it took its snapshot, and none of them is an item a pass had already
\* dequeued by then.
C9_RedrainRetriesRemaining ==
    /\ \A p \in passes :
          p.pc \in {"insert", "remove"} =>
             /\ Attempted(p) \subseteq p.seen
             /\ Attempted(p) \cap p.gone = {}
    /\ LET e == last.ended
       IN  e # NoPass =>
             /\ Attempted(e) = e.seen
             /\ e.seen \cap e.gone = {}

\* A pass has just ended that retried an item which was already queued when
\* an earlier pass dequeued a later one.
C9_Witness ==
    LET e == last.ended
    IN  /\ e # NoPass
        /\ \E x \in Attempted(e) : \E g \in e.gone : x < g

\* ------------------------------------------------------------------ C10
\* The step in which the awaited insert of an online submit succeeds: its
\* row lands in the remote store, or the call settles without enqueueing.
OnlineSuccessStep(s) ==
    /\ s \in submits /\ s.pc = "insert"
    /\ \/ \A s2 \in submits' : s2.data # s.data
       \/ CopiesIn(Row(s.table, s.data), remote') >
             CopiesIn(Row(s.table, s.data), remote)

\* C10: an online submit whose remote insert succeeds returns
\* {success: true, offline: false} after exactly one remote insert of its
\* record, and leaves pendingCount and the durable queue as they were.
C10_OnlineSubmitSuccess ==
    [][\A s \in submits :
          OnlineSuccessStep(s) =>
             /\ s.online /\ s.inserts = 1
             /\ returned' = returned \cup {Settled(s, "remote")}
             /\ remote' = RemoteInsert(remote, s.table, s.data)
             /\ CopiesIn(Row(s.table, s.data), remote') = 1
             /\ pendingCount' = pendingCount
             /\ queue' = queue]_vars

\* A submit has returned {success: true, offline: false} while items were
\* queued and counted.
C10_Witness ==
    /\ \E r \in returned : r.result = "remote"
    /\ queue # {}
    /\ \E i \in mounted : pendingCount[i] > 0

\* ------------------------------------------------------------------ C11
\* The call s leaves submitWithOfflineSupport in this step.
Settles(s) == s \in submits /\ \A s2 \in submits' : s2.data # s.data

\* The step in which a submit made online, whose remote insert has failed,
\* settles with its enqueue accepted by the local store.
FallbackStep(s) ==
    /\ Settles(s)
    /\ s.online /\ s.pc = "add"
    /\ faults' = faults

\* C11: an online submit whose remote insert fails (error result or thrown)
\* enqueues its record exactly once, under the same table and with the same
\* data, raises pendingCount by exactly 1, has made one remote insert
\* attempt and makes no other, and returns {success: true, offline: true}.
C11_OnlineFallbackEnqueuesOnce ==
    [][\A s \in submits :
          FallbackStep(s) =>
             /\ s.inserts = 1
             /\ remote' = remote
             /\ \E it \in queue' :
                   /\ it \notin queue /\ it.id \notin Ids(queue)
                   /\ queue' = queue \cup {it}
                   /\ it.table = s.table /\ it.data = s.data
             /\ Cardinality({it \in queue' : it.data = s.data}) = 1
             /\ pendingCount' =
                   [pendingCount EXCEPT ![s.owner] = pendingCount[s.owner] + 1]
             /\ returned' = returned \cup {Settled(s, "queued")}]_vars

\* An online submit has fallen back to the queue: one insert attempt, its
\* record queued once and counted, nothing of it in the remote store.
C11_Witness ==
    \E r \in returned :
        /\ r.online /\ r.result = "queued" /\ r.inserts = 1
        /\ Cardinality(Queued(r)) = 1
        /\ pendingCount[r.owner] >= 1
        /\ ~BagIn(Row(r.table, r.data), remote)

\* ------------------------------------------------------------------ C12
\* C12: whatever the connectivity and whatever the outcome of the remote
\* insert, a submit whose local enqueue (if any) is accepted settles with
\* success: true, as {offline: false} or {offline: true}; no rejection
\* reaches the caller unless the local store has rejected a request.
C12_RemoteNeverFailsSubmit ==
    /\ [](\A r \in returned : r.result = "rejected" => faults > 0)
    /\ [][\A s \in submits :
             (Settles(s) /\ faults' = faults) =>
                \E res \in {"remote", "queued"} :
                    returned' = returned \cup {Settled(s, res)}]_vars

\* With no local-store fault so far, a submit made online whose insert
\* failed has settled with success: true.
C12_Witness ==
    /\ faults = 0 /\ submits = {}
    /\ \E r \in returned : r.online /\ r.result = "queued"

\* ------------------------------------------------------------------ C13
\* The step in which addToOfflineQueue rejects under the call s.
EnqueueRejectedStep(s) ==
    /\ Settles(s)
    /\ s.pc = "add"
    /\ faults' > faults

\* C13: when addToOfflineQueue rejects, the submit rejects to its caller
\* and leaves pendingCount and the queue as they were; and every record a
\* submit reported as accepted is in the queue or in the remote store.
C13_EnqueueFailureSurfaces ==
    /\ [](\A r \in returned :
            r.result # "rejected" =>
               \/ BagIn(Row(r.table, r.data), remote)
               \/ Queued(r) # {})
    /\ [][\A s \in submits :
             EnqueueRejectedStep(s) =>
                /\ returned' = returned \cup {Settled(s, "rejected")}
                /\ queue' = queue
                /\ pendingCount' = pendingCount]_vars

\* A submit has rejected: its record is neither queued nor stored remotely.
C13_Witness ==
    \E r \in returned :
        /\ r.result = "rejected"
        /\ Queued(r) = {}
        /\ ~BagIn(Row(r.table, r.data), remote)

\* ------------------------------------------------------------------ C14
\* C14: a drain pass works on the snapshot it took: the items it attempts
\* are items queued at the snapshot, an item enqueued since is not among
\* them, and the pass has made at most as many insert attempts as the
\* snapshot has items; when it ends it has made exactly that many.
C14_PassProcessesSnapshotOnly ==
    /\ \A p \in passes :
          p.pc \in {"insert", "remove"} =>
             /\ SnapIds(p) = p.seen
             /\ Len(p.snap) = Cardinality(p.seen)
             /\ p.idx <= Cardinality(p.seen)
             /\ \A it \in queue : it.id \notin p.seen => it.id \notin Attempted(p)
    /\ LET e == last.ended
       IN  e # NoPass =>
             /\ e.idx = Cardinality(e.seen)
             /\ \A it \in queue : it.id \notin e.seen => it.id \notin Attempted(e)

\* A pass over a non-empty snapshot has just ended while the queue holds an
\* item that was enqueued after the snapshot was taken.
C14_Witness ==
    LET e == last.ended
    IN  /\ e # NoPass
        /\ e.snap # <<>>
        /\ \E it \in queue : it.id \notin e.seen

\* ------------------------------------------------------------------ C15
\* C15: a syncQueue() call made while the monitor reads offline starts no
\* pass and attempts no remote insert: the passes in flight, the remote
\* store, the queue, pendingCount, isSyncing and the in-flight guard are as
\* they were, so an Idle engine stays Idle.
C15_DrainOfflineNoOp ==
    [][\A i \in last'.ignored :
          /\ ~isOnline /\ ~isOnline'
          /\ passes' = passes
          /\ remote' = remote
          /\ queue' = queue
          /\ pendingCount' = pendingCount
          /\ isSyncing' = isSyncing
          /\ isSyncingRef' = isSyncingRef]_vars

\* syncQueue() has just been called offline on an Idle engine whose queue
\* holds items.
C15_Witness ==
    /\ last.ignored # {}
    /\ queue # {}
    /\ \A i \in last.ignored :
          ~isSyncingRef[i] /\ ~isSyncing[i] /\ PassesOf(i) = {}

\* ------------------------------------------------------------------ C16
\* The instance i is mounted with the monitor reading online, or the monitor
\* turns online over the mounted instance i, while i is Idle.
AutoTrigger(i) ==
    /\ i \in mounted' /\ isOnline'
    /\ i \notin mounted \/ ~isOnline
    /\ ~isSyncingRef[i]

\* The pass p leaves the await it is suspended at in this step; PassNext(p)
\* holds what it has become, if it goes on.
PassNext(p) == {q \in passes' : q.owner = p.owner}

PassMoves(p) ==
    /\ p \in passes
    /\ \A q \in PassNext(p) : q.pc # p.pc \/ q.idx # p.idx

\* C16: when a hook instance mounts online, or the monitor turns online,
\* and the instance is Idle, a drain pass starts in that step; once that
\* pass has listed the queue its snapshot holds every item that was queued
\* when it started, every snapshot item is attempted in turn, an insert
\* that succeeds puts the item's data in the item's table and is followed
\* by removeFromOfflineQueue(item.id), which takes the item with that id,
\* and no other, out of the queue.
C16_AutoDrainOnConnect ==
    /\ [](\A p \in passes :
            /\ p.pc = "list" => p.start \subseteq Ids(queue)
            /\ p.pc \in {"insert", "remove"} =>
                  /\ p.idx \in 1..Len(p.snap)
                  /\ p.snap[p.idx].id \in p.seen)
    /\ [](last.ended # NoPass => Attempted(last.ended) = last.ended.seen)
    /\ [][\A i \in Instances :
             AutoTrigger(i) =>
                \E p \in passes' \ passes :
                    /\ p.owner = i /\ p.pc = "list"
                    /\ p.start = Ids(queue)
                    /\ isSyncingRef'[i] /\ isSyncing'[i]]_vars
    /\ [][\A p \in passes :
             /\ (PassMoves(p) /\ p.pc = "list" /\ faults' = faults) =>
                   /\ \A q \in PassNext(p) : p.start \subseteq SnapIds(q)
                   /\ PassNext(p) = {} => p.start = {}
             /\ (PassMoves(p) /\ p.pc = "insert" /\ remote' # remote) =>
                   /\ remote' = RemoteInsert(remote, p.snap[p.idx].table,
                                             p.snap[p.idx].data)
                   /\ PassNext(p) = {[p EXCEPT !.pc = "remove"]}
             /\ (PassMoves(p) /\ p.pc = "remove" /\ faults' = faults) =>
                   /\ queue' = {it \in queue : it.id # p.snap[p.idx].id}
                   /\ p.snap[p.idx].id \in dequeued']_vars

\* The pass that the effect started when the hook mounted online, or when
\* the monitor turned online, is awaiting its listing with items queued:
\* nothing has been dequeued, submitted or counted yet, so no earlier pass
\* has listed the queue.
C16_Witness ==
    /\ isOnline /\ faults = 0 /\ dequeued = {} /\ returned = {} /\ submits = {}
    /\ \E p \in passes :
          /\ p.pc = "list" /\ p.start # {}
          /\ pendingCount[p.owner] = 0
          /\ p.owner \in loading

\* ------------------------------------------------------------------ C17
\* C17: the in-flight guard and isSyncing are set only while a pass of the
\* instance is in flight, and every pass that is in flight ends: the engine
\* is Idle again, whether the listing failed, inserts failed or threw, a
\* dequeue was rejected or connectivity dropped during the pass.
C17_PassAlwaysEnds ==
    /\ [](\A i \in Instances :
            (isSyncingRef[i] \/ isSyncing[i]) => PassesOf(i) # {})
    /\ \A i \in Instances :
          (PassesOf(i) # {}) ~>
             (PassesOf(i) = {} /\ ~isSyncingRef[i] /\ ~isSyncing[i])

\* A pass in which a dequeue was rejected has just ended, connectivity
\* having dropped meanwhile, and the engine is Idle.
C17_Witness ==
    LET e == last.ended
    IN  /\ e # NoPass
        /\ e.kept # {}
        /\ ~isOnline
        /\ ~isSyncingRef[e.owner] /\ ~isSyncing[e.owner]
        /\ PassesOf(e.owner) = {}

\* ------------------------------------------------------------------ C18
\* C18: a form calls sendNotification only for a submission whose submit
\* returned {success: true, offline: false}; a submission that was queued
\* (made offline, or online with a failed insert) triggers no notification.
C18_NotifyOnlyAfterRemote ==
    /\ \A h \in handled : h.notified => h.result = "remote"
    /\ \A n \in notes : \E h \in handled :
          h.data = n.data /\ h.result = "remote"

\* ------------------------------------------------------------------ C19
\* C19: sendNotification never rejects, whatever getSession, fetch and the
\* body read do; a step of it changes neither the queue, nor pendingCount,
\* nor the remote store, nor what any submit returned, and the result a
\* form has recorded for a submission is the one its submit returned.
C19_NotificationFireAndForget ==
    /\ [](\A n \in notes :
            /\ n.settled # "rejected"
            /\ (n.pc = "done") <=> (n.settled = "resolved"))
    /\ [](\A h \in handled : \E r \in returned :
            r.data = h.data /\ r.result = h.result)
    /\ [][\A n \in notes :
             n \notin notes' =>
                /\ queue' = queue
                /\ pendingCount' = pendingCount
                /\ remote' = remote
                /\ returned' = returned
                /\ submits' = submits
                /\ handled' = handled]_vars

\* A notification in which an exception occurred has settled; the
\* submission it was sent for is recorded by the form as the submit
\* returned it, and its row is in the remote store.
C19_Witness ==
    \E n \in notes :
        /\ n.pc = "done" /\ n.settled = "resolved" /\ n.log = "error"
        /\ \E h \in handled :
              /\ h.data = n.data /\ h.result = "remote" /\ ~h.submitting
              /\ \E t \in Tables : BagIn(Row(t, n.data), remote)

\* ------------------------------------------------------------------ C20
Listed(c) == {c.list[k] : k \in 1..Len(c.list)}

\* C20: listing the queue after addToOfflineQueue(t, p) has resolved with
\* an id shows exactly one item with that id, whose table is t and whose
\* data is p, next to the items that were there; listing it after
\* removeFromOfflineQueue(id) shows no item with that id and every other
\* item as it was.
C20_QueueRoundTrip ==
    /\ (dbCall.op = "add" /\ dbCall.listed) =>
          /\ Cardinality({k \in 1..Len(dbCall.list) :
                             dbCall.list[k].id = dbCall.id}) = 1
          /\ \A it \in Listed(dbCall) :
                it.id = dbCall.id =>
                   it.table = dbCall.table /\ it.data = dbCall.data
          /\ {it \in Listed(dbCall) : it.id # dbCall.id} = dbCall.before
          /\ Len(dbCall.list) = Cardinality(dbCall.before) + 1
    /\ (dbCall.op = "remove" /\ dbCall.listed) =>
          /\ \A it \in Listed(dbCall) : it.id # dbCall.id
          /\ Listed(dbCall) = {it \in dbCall.before : it.id # dbCall.id}
          /\ Len(dbCall.list) = Cardinality(Listed(dbCall))

\* The queue has been listed after the removal of an item that a direct
\* call had enqueued, and another item is still listed.
C20_Witness ==
    /\ dbCall.op = "remove" /\ dbCall.listed
    /\ \E it \in dbCall.before : it.id = dbCall.id /\ it.data \in Payloads
    /\ dbCall.list # <<>>

\* ------------------------------------------------------------------ C21
\* A direct removeFromOfflineQueue(id) call resolves in this step.
RemoveStep == dbCall' # dbCall /\ dbCall'.op = "remove"

\* C21: removeFromOfflineQueue(id) for an id the queue does not hold, never
\* enqueued or already removed, resolves and leaves the queue and the cache
\* as they were; a second removal of the same id changes nothing.
C21_DequeueAbsentNoOp ==
    [][/\ (RemoveStep /\ dbCall'.id \notin Ids(queue)) =>
             queue' = queue /\ cache' = cache
       /\ (RemoveStep /\ dbCall.op = "remove" /\ dbCall'.id = dbCall.id) =>
             queue' = queue /\ cache' = cache]_vars

\* An id the queue did not hold has been removed while the queue held
\* another item and the cache an entry.
C21_Witness ==
    /\ dbCall.op = "remove"
    /\ dbCall.id \notin Ids(dbCall.before)
    /\ dbCall.before # {} /\ queue = dbCall.before
    /\ cache # {}

\* ------------------------------------------------------------------ C22
\* C22: getCachedData(k) returns the value last handed to cacheData for k,
\* the falsy values included, and null only when k holds no entry.
C22_CacheRoundTrip ==
    cacheCall.op = "get" =>
       /\ written[cacheCall.key] # Null =>
              cacheCall.result = written[cacheCall.key]
       /\ cacheCall.result = Null =>
              \A e \in cache : e.key # cacheCall.key

\* ------------------------------------------------------------------ C23
\* C23: after any sequence of cacheData calls the store holds one entry per
\* written key, carrying the value and the timestamp of the last write of
\* that key, and getCachedData(k) returns the value of the last write.
C23_CacheUpsert ==
    /\ \A k \in CacheKeys : Cardinality({e \in cache : e.key = k}) <= 1
    /\ \A k \in CacheKeys :
          written[k] # Null => \E e \in cache : e.key = k /\ e.data = written[k]
    /\ cacheCall.op = "put" =>
          \E e \in cache : /\ e.key = cacheCall.key
                            /\ e.data = cacheCall.data
                            /\ e.timestamp = cacheCall.timestamp
    /\ cacheCall.op = "get" => cacheCall.result = written[cacheCall.key]

\* ------------------------------------------------------------------ C24
\* A clearCache() call resolves in this step.
ClearStep ==
    cacheCall'.op = "clear" /\ dbCall' = dbCall /\ faults' = faults

\* A clearCache() call rejects in this step.
ClearFailStep == cacheCall'.op = "rejected" /\ faults' # faults

\* C24: when clearCache() resolves the queue lists empty and getCachedData
\* returns null for every key, whatever the stores held; a clearCache()
\* that rejects leaves both stores as they were; no step clears one store
\* and not the other.
C24_ClearAtomic ==
    [][/\ ClearStep =>
             /\ getOfflineQueue(queue') = <<>>
             /\ \A k \in CacheKeys : getCachedData(cache', k) = Null
       /\ ClearFailStep => queue' = queue /\ cache' = cache]_vars

\* clearCache() has resolved on a queue that held an item added by a direct
\* call and on a cache that held an entry.
C24_Witness ==
    /\ cacheCall.op = "clear"
    /\ cacheCall.held = <<TRUE, TRUE>>
    /\ dbCall.op = "add"
    /\ queue = {} /\ cache = {}

\* ------------------------------------------------------------------ C25
\* C25: once addToOfflineQueue has resolved with an id, the item is in the
\* store: every later listing of the queue shows it, a reload of the page
\* in between or not.
C25_DurableOnReturn ==
    (dbCall.op = "add" /\ dbCall.listed) =>
       \E it \in Listed(dbCall) :
          it.id = dbCall.id /\ it.table = dbCall.table /\ it.data = dbCall.data

C28_DocumentedShortageSeverity ==
    (cash.pc = "computed" /\ cash.actionType = "shortage") =>
       cash.severity \in DocumentedSeverity(Abs(cash.variance))

\* ------------------------------------------------------------------ C29
\* The inputs of the store form's handleSubmit activations, running or ended.
StoreSubmitted ==
    {h.input : h \in {g \in handlers : g.form = StoreSurface}}
    \cup {h.input : h \in {g \in handled : g.form = StoreSurface.form}}

\* C29: every opening or closing checklist record handed to
\* submitWithOfflineSupport has all of its items completed; a maintenance
\* request is handed over without a checklist and without that condition.
C29_ChecklistGate ==
    \A x \in StoreSubmitted :
       LET r == StoreRecord(x)
       IN  /\ r.action_type \in {"opening_checklist", "closing_checklist"} =>
                /\ r.checklist_items # {}
                /\ \A i \in r.checklist_items : i.completed
                /\ r.completed
           /\ r.action_type = "maintenance" => r.checklist_items = {}

\* A closing checklist with every item completed has been submitted
\* and has reached the remote store.
C29_Witness ==
    \E h \in handled :
       /\ h.form = StoreSurface.form
       /\ h.input.actionType = "closing_checklist"
       /\ h.input.checklistItems \in Checklists(CLOSING_CHECKLIST_ITEMS)
       /\ h.result = "remote"

\* ------------------------------------------------------------------ C30
\* A window event is dispatched in this step.
EventStep == heard'.tick # heard.tick

\* C30: the monitor's value is the kind of the last window event, true
\* after 'online' and false after 'offline' (before any event it is what
\* the browser reported when the page loaded); an event that repeats the
\* value the monitor holds changes nothing the hook exposes and calls
\* syncQueue() on no instance.
C30_MonitorFollowsEvents ==
    /\ [](heard.event # "none" => (isOnline <=> heard.event = "online"))
    /\ [][(EventStep /\ (isOnline <=> heard'.event = "online")) =>
             /\ UNCHANGED <<isOnline, passes, isSyncing, isSyncingRef,
                            pendingCount, loading, queue, remote>>
             /\ last'.coalesced = {} /\ last'.ignored = {}]_vars

\* An 'online' event has repeated the monitor's value while the mounted
\* instance was idle with an item in the queue.
C30_Witness ==
    /\ heard.event = "online" /\ heard.repeated
    /\ "Hook" \in mounted
    /\ passes = {} /\ loading = {}
    /\ queue # {}
    /\ last = Obs({}, NoPass)

\* ------------------------------------------------------------------ C31
\* The submit calls made while a pass was running, now settled.
SettledDuring == {r \in returned : r.data \in during}

\* C31: a submit made while a drain pass is running completes on its own
\* branch, and once the submit and every pass have finished its record is
\* in the remote store or in the queue and the pendingCount of every
\* mounted instance is the length of the queue.
C31_SubmitDuringDrain ==
    (SettledDuring # {} /\ Quiescent) =>
        /\ \A r \in SettledDuring :
              /\ r.result # "rejected"
              /\ BagIn(Row(r.table, r.data), remote) \/ Queued(r) # {}
        /\ \A i \in mounted : pendingCount[i] = Cardinality(queue)

\* ------------------------------------------------------------------ C32
ReplayIds == 1..(MaxInitQueue + MaxSubmits)

\* C32: if connectivity is eventually restored and stays restored, and the
\* replayed inserts succeed, every queued item is eventually inserted
\* remotely and removed from the queue by a pass.
C32_ReplayLiveness ==
    \A id \in ReplayIds :
        (<>[](isOnline)) =>
            ((id \in Ids(queue)) ~> (id \in dequeued /\ id \notin Ids(queue)))

\* ------------------------------------------------------------------ C33
\* The items that leave the queue in a step.
Leaving == {it \in queue : it.id \notin Ids(queue')}

\* C33: an item leaves the queue only in the step of a pass that is
\* awaiting the removal of that very item, which it reaches when the remote
\* insert of the item's payload into its table returned without error; the
\* step is not a step of a submit.
C33_RemoveOnlyAfterInsert ==
    [][\A it \in Leaving :
          /\ \E p \in passes :
                /\ p.pc = "remove"
                /\ p.snap[p.idx] = it
                /\ it.id \notin p.failed
          /\ BagIn(Row(it.table, it.data), remote)
          /\ UNCHANGED <<submits, returned, remote>>]_vars

C33_Witness ==
    \E id \in dequeued :
        /\ id \notin Ids(queue)
        /\ \E r \in returned : r.result = "queued" /\ BagIn(Row(r.table, r.data), remote)

\* ------------------------------------------------------------------ C34
\* The awaited removal of pass p's current item is answered in this step.
RemoveAnswered(p) ==
    /\ p.pc = "remove"
    /\ faults' = faults
    /\ ~\E q \in passes' : q.owner = p.owner /\ q.pc = "remove" /\ q.idx = p.idx

\* C34: pendingCount is never negative, and each item a pass has inserted
\* and dequeued lowers the count of the pass's instance by exactly one,
\* unless the count is already zero, in which case it stays zero.
C34_CountFloor ==
    /\ [](\A i \in DOMAIN pendingCount : pendingCount[i] >= 0)
    /\ [][\A p \in passes :
            RemoveAnswered(p) =>
                pendingCount'[p.owner] =
                    IF pendingCount[p.owner] = 0 THEN 0
                    ELSE pendingCount[p.owner] - 1]_vars

\* A pass has inserted an item and awaits its removal while the count of
\* its instance is already zero: the other instance dequeued the item and
\* the initial load has re-read the queue since.
C34_Witness ==
    \E p \in passes :
        /\ p.pc = "remove"
        /\ p.owner \notin loading
        /\ pendingCount[p.owner] = 0
        /\ p.snap[p.idx].id \in dequeued

\* ------------------------------------------------------------------ C35
\* The queue as the previous session left it, holding n items.
PersistedQueue(n) ==
    {[id |-> j, table |-> PersistedTable, data |-> <<"persisted", j>>,
      timestamp |-> EnqueuedAt(j)] : j \in 1..n}

\* The instance's initial load has answered, nothing was submitted, no
\* replayed insert succeeded and nothing was dequeued.
FreshlyLoaded(i) ==
    /\ i \in mounted
    /\ i \notin loading
    /\ faults = 0
    /\ Calls = 0
    /\ remote = EmptyBag
    /\ dequeued = {}

\* C35: after a restart on any persisted queue, once the initial load has
\* completed and before any drain or submit has changed the queue,
\* pendingCount is the number of persisted items and the persisted queue is
\* as the previous session left it.
C35_ReloadReadsQueue ==
    \A i \in Instances :
        FreshlyLoaded(i) =>
            /\ pendingCount[i] = Cardinality(queue)
            /\ queue = PersistedQueue(nextId - 1)

C35_Witness ==
    /\ FreshlyLoaded("Hook")
    /\ ~isOnline
    /\ passes = {}
    /\ queue # {}
    /\ pendingCount["Hook"] = Cardinality(queue)

\* ------------------------------------------------------------------ C36
\* The payloads handed to the queue: those of the previous session and
\* those passed to submit.
Handed ==
    {Row(it.table, it.data) : it \in PersistedQueue(MaxInitQueue)} \cup
    {Row(r.table, r.data) : r \in returned \cup submits}

\* C36: a queued item is never changed in place: as long as an item of its
\* id is in the queue it is the same id, table, data and timestamp, across
\* submits, successful and failed replay attempts and cache operations; and
\* every payload inserted remotely is, with its table, one that was passed
\* to submit or left by the previous session.
C36_ItemsImmutable ==
    /\ [](\A row \in BagToSet(remote) : row \in Handed)
    /\ [][\A it \in queue : it.id \in Ids(queue') => it \in queue']_vars

\* An item enqueued by a submit next to an older one has been replayed
\* after a failed attempt on another item and a cache write.
C36_Witness ==
    /\ \E r \in returned :
          /\ r.result = "queued"
          /\ Queued(r) = {}
          /\ BagIn(Row(r.table, r.data), remote)
    /\ queue # {}
    /\ last.ended # NoPass
    /\ last.ended.failed # {}
    /\ cache # {}

\* ------------------------------------------------------------------ C37
\* The notification got past the session read: a token was present.
HadToken(n) ==
    \/ n.pc \in {"fetch", "text"}
    \/ n.pc = "done" /\ n.log \in {"none", "failed"}

\* C37: without an auth token sendNotification logs, returns and sends no
\* request; with a token it sends exactly one POST whose body is the
\* notification data; it never sends more than one.
C37_NoTokenNoRequest ==
    \A n \in notes :
        /\ n.log = "no-token" =>
              n.posts = <<>> /\ n.pc = "done" /\ n.settled = "resolved"
        /\ HadToken(n) => n.posts = <<PostRequest(n.data)>>
        /\ Len(n.posts) <= 1

C37_Witness ==
    \E n \in notes :
        n.log = "no-token" /\ n.pc = "done" /\ n.posts = <<>>

\* ------------------------------------------------------------------ C38
\* C38: a cash submission of type shortage is recorded and notified with
\* the severity calculateSeverity gives its variance; a reconciliation is
\* recorded and notified as low whatever its variance.
C38_SeverityByActionType ==
    cash.pc = "computed" =>
       /\ cash.notice = cash.severity
       /\ cash.actionType = "shortage" =>
             cash.severity = calculateSeverity(cash.variance)
       /\ cash.actionType = "reconciliation" => cash.severity = "low"

\* A reconciliation that is $100.01 over has been recorded as low while
\* its badge shows critical.
C38_Witness ==
    /\ cash.pc = "computed"
    /\ cash.actionType = "reconciliation"
    /\ cash.variance = 10001
    /\ cash.badge = "critical"
    /\ cash.severity = "low"
    /\ cash.notice = "low"

====
